---- MODULE Spec2Model ----
(***************************************************************************)
(* Chunked storyboard generation: generateStoryboardInChunks and its two   *)
(* helpers splitScriptIntoSections and generateStoryboardChunk.            *)
(*                                                                         *)
(* One run of generateStoryboardInChunks is modelled.  A step of the model *)
(* is the code that runs between two suspension points (an awaited backend *)
(* call or the awaited 2 s retry delay).  Texts are sequences of one-      *)
(* character strings.  A backend response text is represented by what      *)
(* JSON.parse makes of it after cleanJsonOutput: a syntax error, null, an  *)
(* object without the expected key, or an object with it.                  *)
(*                                                                         *)
(* cleanJsonOutput itself is modelled character by character and applied   *)
(* to raw responses in a specification of its own (CleanSpec); the chunk   *)
(* plan (PlanSpec), the splitter (SplitSpec) and runs with responses of    *)
(* the requested sizes (LongSpec) have theirs.  cleanContent is applied to *)
(* parsed values of any shape in ContentSpec, and DispatchSpec runs the    *)
(* pipeline for every kind of model name.                                  *)
(***************************************************************************)
EXTENDS Integers, Sequences, FiniteSets, TLC

\* ---------------------------------------------------------------- bounds
\* Length of the non-empty script text a whole run is given.
MaxDocLen == 2
\* Longest script text the splitter alone is given.
MaxSplitDocLen == 6
\* Most shots one chunk response holds.
MaxChunkShots == 2
\* Most sections a split response holds.
MaxSplitLen == 2
\* Largest minShots the chunk plan alone is given.
MaxPlanCount == 130
\* Largest maxShots - minShots the chunk plan alone is given.
MaxPlanSpread == 2
\* Longest array of leaves cleanContent alone is given.
MaxJsonLen == 2

\* ------------------------------------------------------ program constants
\* (variant: one retry more)
MAX_RETRIES_Three == 2 + 1
MAX_RETRIES == 2
SPLIT_TIMEOUT == 300000
CHUNK_TIMEOUT == 600000
WINDOW == 5

\* ---------------------------------------------------------------- helpers
Min(a, b) == IF a <= b THEN a ELSE b
Max(a, b) == IF a >= b THEN a ELSE b

\* Math.ceil(a / b) for integers a >= 0, b >= 1
Ceil(a, b) == (a + b - 1) \div b

\* String.prototype.startsWith
StartsWith(s, p) == Len(s) >= Len(p) /\ SubSeq(s, 1, Len(p)) = p

\* String.prototype.substring(start, end): both arguments are clamped to
\* [0, length] and swapped when start > end.
Substring(s, start, end) ==
  LET a == Min(Max(start, 0), Len(s))
      b == Min(Max(end, 0), Len(s))
  IN  SubSeq(s, Min(a, b) + 1, Max(a, b))

\* Array.prototype.slice(-n)
\* (variant: slice(0, n), the oldest n)
FirstN(s, n) == SubSeq(s, 1, Min(Len(s), n))
LastN(s, n) == SubSeq(s, Max(Len(s) - n, 0) + 1, Len(s))

\* ------------------------------------------------------------ input sets
Letters == <<"a", "b", "c", "d", "e", "f", "g", "h">>
Doc(len) == [k \in 1..len |-> Letters[((k - 1) % Len(Letters)) + 1]]
Documents == {Doc(len) : len \in 0..MaxSplitDocLen}

\* (minShots, maxShots): targets 30, 70 and 100, that is 1, 2 and 3 chunks
PlanInputs == {<<20, 40>>, <<60, 80>>, <<80, 120>>}
\* and targets 120 and 150, that is 4 and 5 chunks
SplitPlanInputs == PlanInputs \cup {<<100, 140>>, <<140, 160>>}
\* every positive minShots <= maxShots within the two bounds of the plan
PlanPairs ==
  {<<lo, lo + spread>> : lo \in 1..MaxPlanCount, spread \in 0..MaxPlanSpread}

Claude3 == <<"c","l","a","u","d","e","-","3">>
Gpt4 == <<"g","p","t","-","4">>
DeepSeekV3 == <<"d","e","e","p","s","e","e","k","-","v","3">>
Gemini2 == <<"g","e","m","i","n","i","-","2">>

\* Model names for the dispatch alone: the four above, the empty name, the
\* bare prefixes, "gpt" without its hyphen, a capital letter, and a prefix
\* that is not at the start
ModelNames ==
  {Claude3, Gpt4, DeepSeekV3, Gemini2, <<>>,
   <<"c","l","a","u","d","e">>, <<"g","p","t","-">>,
   <<"d","e","e","p","s","e","e","k">>,
   <<"g","p","t","4">>, <<"C","l","a","u","d","e","-","3">>,
   <<"x","-","c","l","a","u","d","e">>,
   <<"d","e","e","p","-","g","p","t","-">>}

\* The callers drawn as input: (modelName, callGemini passed, callDeepSeek
\* passed, onProgress passed).  Every category occurs with its callable, the
\* two optional ones also without it while the other one is passed, and
\* onProgress occurs passed and not passed.
Callers ==
  { <<Claude3, TRUE, TRUE, TRUE>>, <<Claude3, FALSE, FALSE, FALSE>>,
    <<Gpt4, TRUE, TRUE, FALSE>>, <<Gpt4, FALSE, FALSE, TRUE>>,
    <<DeepSeekV3, FALSE, TRUE, TRUE>>, <<DeepSeekV3, TRUE, FALSE, FALSE>>,
    <<Gemini2, TRUE, FALSE, FALSE>>, <<Gemini2, FALSE, TRUE, TRUE>> }

\* ------------------------------------------------------------- the shots
\* A shot is a record; the backend decides its fields.  Undefined is the
\* JavaScript value undefined, which Array.prototype.concat appends as one
\* element when a parsed response has no "shots".
Undefined == [jsUndefined |-> TRUE]

\* the characters the regular expression of cleanContent removes; the two
\* full-width brackets are written by their code points
MarkupChars == {"*", "[", "]", "U+3010", "U+3011"}
WhiteSpace == {" ", "\n", "U+FEFF"}

RECURSIVE TrimLeft(_)
TrimLeft(s) ==
  IF s # <<>> /\ Head(s) \in WhiteSpace THEN TrimLeft(Tail(s)) ELSE s

RECURSIVE TrimRight(_)
TrimRight(s) ==
  IF s # <<>> /\ s[Len(s)] \in WhiteSpace
  THEN TrimRight(SubSeq(s, 1, Len(s) - 1)) ELSE s

\* cleanContent on a string leaf
CleanString(s) ==
  TrimRight(TrimLeft(SelectSeq(s, LAMBDA c : c \notin MarkupChars)))

\* cleanContent on one shot object: string leaves are cleaned, the others kept
CleanShot(s) ==
  [f \in DOMAIN s |-> IF f = "dialogue" THEN CleanString(s[f]) ELSE s[f]]

\* cleanContent on the array of shots
CleanShots(shots) == [k \in 1..Len(shots) |-> CleanShot(shots[k])]

\* Shots a backend may put in a response: one numbered zero, and one with a
\* number out of any order and markup in its text.
ShotPool ==
  { [shotNumber |-> 0, dialogue |-> <<"x">>],
    [shotNumber |-> 7, dialogue |-> <<"*", "y">>] }

RECURSIVE SeqsUpTo(_, _)
SeqsUpTo(S, n) ==
  IF n = 0 THEN {<<>>}
  ELSE LET shorter == SeqsUpTo(S, n - 1)
       IN  shorter \cup {Append(q, x) : q \in {r \in shorter : Len(r) = n - 1}, x \in S}

\* ------------------------------------------- cleanContent on any value
\* What JSON.parse yields: a string, a number, null, a boolean, an array, or
\* an object with its own keys in enumeration order.  proto is <<>> for an
\* object whose prototype is Object.prototype and <<v>> for one whose
\* prototype has been set to v.
JsString(s) == [t |-> "string", s |-> s]
JsNumber(n) == [t |-> "number", n |-> n]
JsNull == [t |-> "null"]
JsTrue == [t |-> "boolean", b |-> TRUE]
JsArray(items) == [t |-> "array", items |-> items]
JsObject(keys, vals, proto) ==
  [t |-> "object", keys |-> keys, vals |-> vals, proto |-> proto]
ObjectPrototype == <<>>

\* The key whose assignment, newData[key] = value at line 39, runs the
\* setter inherited from Object.prototype and creates no own property
ProtoKey == <<"_", "_", "p", "r", "o", "t", "o", "_", "_">>

\* Line 39 for the key __proto__: the setter makes an object, an array or
\* null the prototype of newData and ignores any other value
SetsPrototype(v) == v.t \in {"object", "array", "null"}

\* Lines 29-44
RECURSIVE cleanContent(_)
cleanContent(data) ==
  IF data.t = "string" THEN JsString(CleanString(data.s))
  ELSE IF data.t = "array"
  THEN JsArray([k \in 1..Len(data.items) |-> cleanContent(data.items[k])])
  ELSE IF data.t = "object"
  THEN LET n == Len(data.keys)
           own == SelectSeq([k \in 1..n |-> k],
                            LAMBDA k : data.keys[k] # ProtoKey)
           set == SelectSeq([k \in 1..n |-> k],
                            LAMBDA k : /\ data.keys[k] = ProtoKey
                                       /\ SetsPrototype(data.vals[k]))
       IN  JsObject([k \in 1..Len(own) |-> data.keys[own[k]]],
                    [k \in 1..Len(own) |-> cleanContent(data.vals[own[k]])],
                    IF set = <<>> THEN ObjectPrototype
                    ELSE <<cleanContent(data.vals[set[Len(set)]])>>)
  ELSE data

\* The parsed values cleanContent alone is given
JsonStrings ==
  {<<>>, <<"x">>, <<"*", "*", "y", "*">>, <<" ", "[", "z", "]", " ">>,
   <<"U+3010", "a", "U+3011">>}
JsonLeaves == {JsString(s) : s \in JsonStrings} \cup {JsNumber(7), JsNull, JsTrue}
JsonArrays == {JsArray(q) : q \in SeqsUpTo(JsonLeaves, MaxJsonLen)}
JsonKeys == {<<"a">>, <<"b", "*">>, ProtoKey}
JsonMembers ==
  JsonLeaves
  \cup {JsArray(<<JsString(<<" ", "[", "z", "]", " ">>), JsNumber(7)>>),
        JsObject(<<<<"a">>>>, <<JsString(<<"*", "*", "y", "*">>)>>,
                 ObjectPrototype)}
JsonShots ==
  {JsObject(<<k>>, <<v>>, ObjectPrototype) : k \in JsonKeys, v \in JsonMembers}
JsonObjects ==
  JsonShots
  \cup {JsObject(keys, <<v1, v2>>, ObjectPrototype) :
          keys \in {q \in JsonKeys \X JsonKeys : q[1] # q[2]},
          v1 \in JsonMembers, v2 \in JsonMembers}
\* a chunk response: an object with one shot under "shots"
JsonChunks ==
  {JsObject(<<<<"s", "h", "o", "t", "s">>>>, <<JsArray(<<shot>>)>>,
            ObjectPrototype) : shot \in JsonShots}
ParsedJsons == JsonLeaves \cup JsonArrays \cup JsonObjects \cup JsonChunks

\* ------------------------------------------------------ cleanJsonOutput
Trim(s) == TrimRight(TrimLeft(s))

EndsWith(s, p) ==
  Len(s) >= Len(p) /\ SubSeq(s, Len(s) - Len(p) + 1, Len(s)) = p

\* The 0-based places of p in s
Places(s, p) == {k \in 0..(Len(s) - Len(p)) : SubSeq(s, k + 1, k + Len(p)) = p}

\* String.prototype.indexOf(p, from) and lastIndexOf(p): -1 when absent
IndexOf(s, p, from) ==
  LET hits == {k \in Places(s, p) : k >= from}
  IN  IF hits = {} THEN -1 ELSE CHOOSE k \in hits : \A j \in hits : k <= j
LastIndexOf(s, p) ==
  LET hits == Places(s, p)
  IN  IF hits = {} THEN -1 ELSE CHOOSE k \in hits : \A j \in hits : k >= j

\* three backticks, each written by its code point
Fence == <<"U+0060", "U+0060", "U+0060">>
FenceJson == Fence \o <<"j", "s", "o", "n">>
NewLine == <<"\n">>
ThinkOpen == <<"<", "t", "h", "i", "n", "k", ">">>
ThinkClose == <<"<", "/", "t", "h", "i", "n", "k", ">">>
Bom == <<"U+FEFF">>
BomBytes == <<"U+00EF", "U+00BB", "U+00BF">>

\* Line 12, first replace: the opening fence, with or without "json", and
\* the line break after it, at the start of the text
StripOpenFence(s) ==
  IF StartsWith(s, FenceJson \o NewLine)
  THEN SubSeq(s, Len(FenceJson) + 2, Len(s))
  ELSE IF StartsWith(s, Fence \o NewLine)
  THEN SubSeq(s, Len(Fence) + 2, Len(s))
  ELSE s

\* Line 12, second replace: a line break and the closing fence at the very
\* end of the text
StripCloseFence(s) ==
  IF EndsWith(s, NewLine \o Fence)
  THEN SubSeq(s, 1, Len(s) - Len(Fence) - 1)
  ELSE s

\* Line 14: every opening tag up to the first closing tag after it, from left
\* to right
RECURSIVE RemoveThink(_)
RemoveThink(s) ==
  LET open == IndexOf(s, ThinkOpen, 0)
      close == IF open = -1 THEN -1
               ELSE IndexOf(s, ThinkClose, open + Len(ThinkOpen))
  IN  IF close = -1 THEN s
      ELSE SubSeq(s, 1, open)
           \o RemoveThink(SubSeq(s, close + Len(ThinkClose) + 1, Len(s)))

\* Line 17: a byte order mark at the start, then its three UTF-8 bytes read
\* as characters
StripBom(s) ==
  LET t == IF StartsWith(s, Bom) THEN Tail(s) ELSE s
  IN  IF StartsWith(t, BomBytes) THEN SubSeq(t, Len(BomBytes) + 1, Len(t))
      ELSE t

\* Lines 20-24
\* (variant: the first closing brace, not the last)
SliceBracesToFirstClose(s) ==
  LET firstBrace == IndexOf(s, <<"{">>, 0)
      lastBrace == IndexOf(s, <<"}">>, 0)
  IN  IF firstBrace # -1 /\ lastBrace # -1 /\ lastBrace > firstBrace
      THEN Substring(s, firstBrace, lastBrace + 1)
      ELSE s
SliceBraces(s) ==
  LET firstBrace == IndexOf(s, <<"{">>, 0)
      lastBrace == LastIndexOf(s, <<"}">>)
  IN  IF firstBrace # -1 /\ lastBrace # -1 /\ lastBrace > firstBrace
      THEN Substring(s, firstBrace, lastBrace + 1)
      ELSE s

cleanJsonOutput(text) ==
  LET trimmed == Trim(text)
      unfenced == IF StartsWith(trimmed, Fence)
                  THEN StripCloseFence(StripOpenFence(trimmed))
                  ELSE trimmed
      unthought == Trim(RemoveThink(unfenced))
  IN  SliceBraces(StripBom(unthought))

\* The raw responses: prose, a reasoning block, a fenced or bare JSON object
\* text and prose again, each part present or not
ProseBefore == {<<>>, <<"H", "i", " ">>, <<"s", "e", "e", " ", "{", "x", "}", " ">>}
Thinks ==
  {<<>>, ThinkOpen \o <<"a">> \o ThinkClose \o NewLine,
   ThinkOpen \o <<"{", "a", "}", "}">> \o ThinkClose \o NewLine}
FenceOpens == {<<>>, Fence \o NewLine, FenceJson \o NewLine}
JsonTexts ==
  {<<"{", "}">>,
   <<"{", "\"", "a", "\"", ":", "1", "}">>,
   <<"{", "\"", "a", "\"", ":", "{", "\"", "b", "\"", ":", "2", "}", "}">>,
   <<"{", "\"", "a", "\"", ":", "\"">> \o ThinkOpen \o ThinkClose \o <<"\"", "}">>}
ProseAfter == {<<>>, <<"\n", "o", "k">>, <<" ", ":", "}">>}

RawResponses ==
  {[given |-> TRUE, before |-> b, think |-> t, open |-> o, json |-> j,
    close |-> IF o = <<>> THEN <<>> ELSE NewLine \o Fence, after |-> a] :
     b \in ProseBefore, t \in Thinks, o \in FenceOpens, j \in JsonTexts,
     a \in ProseAfter}

RawText(r) == r.before \o r.think \o r.open \o r.json \o r.close \o r.after

\* ------------------------------------------------------------- the state
VARIABLES
  scriptText,      \* input: the script
  minShots,        \* input
  maxShots,        \* input
  modelName,       \* input
  hasCallGemini,   \* input: the optional callGemini was passed
  hasCallDeepSeek, \* input: the optional callDeepSeek was passed
  hasOnProgress,   \* input: the optional onProgress was passed
  pc,              \* where the run is suspended, or how it ended
  scriptSections,  \* what splitScriptIntoSections returned
  i,               \* loop index of generateStoryboardInChunks
  allShots,        \* accumulated shots
  retryCount,      \* of the running generateStoryboardChunk
  outstanding,     \* the awaited backend call
  lastProgress,    \* the last notification given to onProgress
  trace,           \* history: the notifications given to onProgress and the
                   \* first backend call of every chunk, in order
  result,          \* the value the run returned
  error,           \* the error the run threw
  resultText,      \* of generateStoryboardChunk: the text the call returned
  chunkCalls,      \* history: backend calls issued for chunk i so far
  chunkResults,    \* history: the ChunkResult of every completed chunk
  splitPath,       \* history: which return of splitScriptIntoSections ran
  event,           \* history: what the last step of the run was
  splitText,       \* history: the text the split call resolved with in the
                   \* last step
  chunkArgs,       \* history: the arguments generateStoryboardChunk was last
                   \* called with
  rawResponse,     \* cleanJsonOutput alone: the parts of its argument
  cleaned,         \* cleanJsonOutput alone: what it returned
  parsedJson,      \* cleanContent alone: its argument
  content          \* cleanContent alone: what it returned

inputs == <<scriptText, minShots, maxShots, modelName, hasCallGemini,
            hasCallDeepSeek, hasOnProgress>>
vars == <<scriptText, minShots, maxShots, modelName, hasCallGemini,
          hasCallDeepSeek, hasOnProgress, pc, scriptSections, i, allShots,
          retryCount, outstanding, lastProgress, trace, result, error,
          resultText,
          chunkCalls, chunkResults, splitPath, event, splitText, chunkArgs,
          rawResponse, cleaned, parsedJson, content>>
cleaning == <<rawResponse, cleaned, parsedJson, content>>

NoCall == [kind |-> "none"]
NoProgress == [current |-> -1, total |-> -1]
NoResult == [returned |-> FALSE, shots |-> <<>>]
NoError == [kind |-> "none"]
NoText == [kind |-> "none", shots |-> <<>>]
NoSplitText == [kind |-> "none", sections |-> <<>>]
NoArgs == [called |-> FALSE]
NoResponse == [given |-> FALSE]
NotCleaned == [returned |-> FALSE, text |-> <<>>]
NoJson == [t |-> "none"]
NoContent == [returned |-> FALSE]

\* ------------------------------------------------------- the chunk plan
targetShots == (minShots + maxShots) \div 2
\* (variant: both thresholds inclusive)
CHUNK_SIZE_Inclusive ==
  IF targetShots >= 100 THEN 30 ELSE IF targetShots >= 60 THEN 40 ELSE 50
CHUNK_SIZE == IF targetShots > 100 THEN 30 ELSE IF targetShots > 60 THEN 40 ELSE 50
numChunks == Ceil(targetShots, CHUNK_SIZE)
chunkMin == (CHUNK_SIZE * 8) \div 10
\* (variant: half as much again)
chunkMaxWide == (CHUNK_SIZE * 15) \div 10
chunkMax == (CHUNK_SIZE * 12) \div 10

\* ------------------------------------------------- category resolution
isClaude == StartsWith(modelName, <<"c","l","a","u","d","e">>)
isOpenAI == StartsWith(modelName, <<"g","p","t","-">>)
isDeepSeek == StartsWith(modelName, <<"d","e","e","p","s","e","e","k">>)
isGemini == ~isClaude /\ ~isOpenAI /\ ~isDeepSeek

\* The callable the if-chain of both helpers reaches, "none" for its else
\* (variant: a DeepSeek model without callDeepSeek goes to callGemini)
CallableElseGemini ==
  IF isClaude THEN "callClaude"
  ELSE IF isOpenAI THEN "callOpenAI"
  ELSE IF isDeepSeek /\ hasCallDeepSeek THEN "callDeepSeek"
  ELSE IF hasCallGemini THEN "callGemini"
  ELSE "none"
Callable ==
  IF isClaude THEN "callClaude"
  ELSE IF isOpenAI THEN "callOpenAI"
  ELSE IF isDeepSeek /\ hasCallDeepSeek THEN "callDeepSeek"
  ELSE IF isGemini /\ hasCallGemini THEN "callGemini"
  ELSE "none"

\* Arguments after (modelName, prompt, systemInstruction): callDeepSeek is
\* called without a timeout
Timeout(fn, ms) == IF fn = "callDeepSeek" THEN <<>> ELSE <<ms>>

\* ------------------------------------------------------ splitting a script
\* The "simple equal split" of splitScriptIntoSections (both copies)
\* (variant: the section length rounded down)
FallbackSplitFloor(text, numSections) ==
  LET sectionLength == Len(text) \div numSections
  IN  [k \in 1..numSections |->
         Substring(text, (k - 1) * sectionLength,
                   Min(k * sectionLength, Len(text)))]
FallbackSplit(text, numSections) ==
  LET sectionLength == Ceil(Len(text), numSections)
  IN  [k \in 1..numSections |->
         Substring(text, (k - 1) * sectionLength,
                   Min(k * sectionLength, Len(text)))]

\* A split response of k sections
BackendSections(k) == [j \in 1..k |-> <<Letters[((j - 1) % Len(Letters)) + 1]>>]

\* What the backend may answer to the split request
SplitTexts ==
  {[kind |-> "invalid", sections |-> <<>>],
   [kind |-> "null", sections |-> <<>>],
   [kind |-> "no_sections", sections |-> <<>>]}
  \cup {[kind |-> "sections", sections |-> BackendSections(k)] : k \in 0..MaxSplitLen}

\* Lines 214-229: JSON.parse throws on invalid text and parsed.sections throws
\* on null, both caught by the fallback; otherwise parsed.sections || []
SplitResult(text, doc, numSections) ==
  IF text.kind \in {"invalid", "null"} THEN FallbackSplit(doc, numSections)
  ELSE IF text.kind = "no_sections" THEN <<>>
  ELSE text.sections

\* The return statement that yields SplitResult
SplitPath(text) ==
  IF text.kind \in {"invalid", "null"} THEN "fallback" ELSE "backend"

\* scriptSections[idx], undefined beyond the end of the array
SectionAt(sections, idx) ==
  IF idx + 1 <= Len(sections)
  THEN [defined |-> TRUE, text |-> sections[idx + 1]]
  ELSE [defined |-> FALSE, text |-> <<>>]

\* ------------------------------------------------------ chunk responses
ChunkTexts ==
  {[kind |-> "invalid", shots |-> <<>>],
   [kind |-> "null", shots |-> <<>>],
   [kind |-> "no_shots", shots |-> <<>>]}
  \cup {[kind |-> "shots", shots |-> q] : q \in SeqsUpTo(ShotPool, MaxChunkShots)}

\* A response of n shots numbered from the requested start, each with a text
\* of its own among any 8 consecutive ones
NumberedShots(start, n) ==
  [k \in 1..n |->
     [shotNumber |-> start + k - 1,
      dialogue |-> <<Letters[((start + k - 2) % Len(Letters)) + 1]>>]]

\* allShots.concat(chunkResult.shots): an array argument is spread, the value
\* undefined becomes one element
\* (variant: the new chunk put in front)
ConcatPrepend(acc, chunk) ==
  IF chunk.hasShots THEN chunk.shots \o acc ELSE <<Undefined>> \o acc
Concat(acc, chunk) ==
  IF chunk.hasShots THEN acc \o chunk.shots ELSE Append(acc, Undefined)

\* { ...shot, shotNumber: n }: spreading undefined copies no field
WithShotNumber(shot, n) ==
  LET fields == IF shot = Undefined THEN {} ELSE DOMAIN shot
  IN  [f \in fields \cup {"shotNumber"} |->
         IF f = "shotNumber" THEN n ELSE shot[f]]

\* Lines 141-145
\* (variant: numbered by the 0-based index)
RenumberFromZero(shots) == [k \in 1..Len(shots) |-> WithShotNumber(shots[k], k - 1)]
Renumber(shots) == [k \in 1..Len(shots) |-> WithShotNumber(shots[k], k)]

\* ------------------------------------------------------- the backend calls
SplitCall ==
  [kind |-> "split", fn |-> Callable, model |-> modelName,
   timeout |-> Timeout(Callable, SPLIT_TIMEOUT), numSections |-> numChunks,
   text |-> Substring(scriptText, 0, 300000)]

\* The request of generateStoryboardChunk for chunk idx with acc accumulated
ChunkCall(idx, acc, sections) ==
  [kind |-> "chunk", fn |-> Callable, model |-> modelName,
   timeout |-> Timeout(Callable, CHUNK_TIMEOUT), chunk |-> idx,
   section |-> SectionAt(sections, idx), minShots |-> chunkMin,
   maxShots |-> chunkMax, startShotNumber |-> Len(acc) + 1,
   window |-> LastN(acc, WINDOW)]

\* The responses to the outstanding chunk request that follow its numbering:
\* 1 or 3 shots, the least and the most count asked for, and one more
LongCounts == {1, 3, chunkMin, chunkMax, chunkMax + 1}
LongChunkTexts ==
  {[kind |-> "shots", shots |-> NumberedShots(outstanding.startShotNumber, n)] :
     n \in LongCounts}

\* Lines 102-116: the count arguments of the call of generateStoryboardChunk
\* for chunk idx with acc accumulated
ChunkArgs(idx, acc) ==
  [called |-> TRUE, chunk |-> idx, minShots |-> chunkMin, maxShots |-> chunkMax,
   startShotNumber |-> Len(acc) + 1, previousShots |-> Len(acc)]

\* The arguments of the last call once the loop of line 88 has gone on from
\* index idx or has ended there
Invoked(idx, acc, args) == IF idx < numChunks THEN ChunkArgs(idx, acc) ELSE args

\* The last notification of a trace
LastNotification(tr) ==
  LET given == {k \in 1..Len(tr) : tr[k].kind = "notify"}
  IN  IF given = {} THEN NoProgress
      ELSE LET last == tr[CHOOSE k \in given : \A j \in given : j <= k]
           IN  [current |-> last.current, total |-> last.total,
                phase |-> last.phase]

\* -------------------------------------------- the run's state transformers
\* Each yields the values of the variables in G after the code has run to its
\* next suspension point or to its end.
G == <<pc, i, allShots, retryCount, outstanding, lastProgress, trace, result,
       error, chunkCalls>>

Become(st) ==
  /\ pc' = st.pc
  /\ i' = st.i
  /\ allShots' = st.allShots
  /\ retryCount' = st.retryCount
  /\ outstanding' = st.outstanding
  /\ lastProgress' = LastNotification(st.trace)
  /\ trace' = st.trace
  /\ result' = st.result
  /\ error' = st.error
  /\ chunkCalls' = st.chunkCalls

\* Lines 81-83, 92-98 and 121-127: onProgress, when passed, is given one more
\* notification
Notify(prog, current, phase) ==
  IF hasOnProgress
  THEN Append(prog, [kind |-> "notify", current |-> current,
                     total |-> numChunks, phase |-> phase])
  ELSE prog

\* The first backend call of a chunk is issued with the request
FirstCall(prog, request, cc) ==
  IF cc = 0
  THEN Append(prog, [kind |-> "call", chunk |-> request.chunk,
                     request |-> request])
  ELSE prog

\* The error of the catch block of generateStoryboardInChunks
\* (variant: the branch taken on the chunk index, not on the list length)
PipelineErrorByIndex(idx, acc, cause) ==
  IF idx > 0
  THEN [kind |-> "partial", chunk |-> idx + 1, total |-> numChunks,
        completed |-> Len(acc), cause |-> cause]
  ELSE [kind |-> "advice", chunk |-> idx + 1, total |-> numChunks,
        cause |-> cause]
PipelineError(idx, acc, cause) ==
  IF Len(acc) > 0
  THEN [kind |-> "partial", chunk |-> idx + 1, total |-> numChunks,
        completed |-> Len(acc), cause |-> cause]
  ELSE [kind |-> "advice", chunk |-> idx + 1, total |-> numChunks,
        cause |-> cause]

\* Lines 128-138: the loop is left by the throw
\* (variant: the error is swallowed and the loop goes on)
ThrownSwallowed(idx, acc, cause, prog, rc, cc) ==
  IF idx + 1 < numChunks
  THEN [pc |-> "chunk_call", i |-> idx + 1, allShots |-> acc, retryCount |-> 0,
        outstanding |-> ChunkCall(idx + 1, acc, scriptSections),
        trace |-> prog, result |-> NoResult, error |-> NoError,
        chunkCalls |-> 1]
  ELSE [pc |-> "done", i |-> idx + 1, allShots |-> acc, retryCount |-> rc,
        outstanding |-> NoCall, trace |-> prog,
        result |-> [returned |-> TRUE, shots |-> acc], error |-> NoError,
        chunkCalls |-> cc]
Thrown(idx, acc, cause, prog, rc, cc) ==
  [pc |-> "failed", i |-> idx, allShots |-> acc, retryCount |-> rc,
   outstanding |-> NoCall, trace |-> prog, result |-> NoResult,
   error |-> PipelineError(idx, acc, cause), chunkCalls |-> cc]

\* Line 418: the retry loop waits before its next iteration
Waiting(idx, acc, prog, rc, cc) ==
  [pc |-> "retry_wait", i |-> idx, allShots |-> acc, retryCount |-> rc,
   outstanding |-> NoCall, trace |-> prog, result |-> NoResult,
   error |-> NoError, chunkCalls |-> cc]

\* Lines 412-419 with the failure of generateStoryboardChunk it may end in
AttemptFailed(idx, acc, why, prog, rc, cc) ==
  IF rc + 1 > MAX_RETRIES
  THEN Thrown(idx, acc,
              [kind |-> "exhausted", retried |-> MAX_RETRIES, inner |-> why],
              prog, rc + 1, cc)
  ELSE Waiting(idx, acc, prog, rc + 1, cc)

\* Lines 398-411: one iteration of the retry loop, up to its await
\* (variant: every retry asks for one shot less at least)
AttemptAskingLess(idx, acc, sections, prog, rc, cc) ==
  IF Callable # "none"
  THEN [pc |-> "chunk_call", i |-> idx, allShots |-> acc, retryCount |-> rc,
        outstanding |->
          [ChunkCall(idx, acc, sections) EXCEPT !.minShots = @ - rc],
        trace |-> FirstCall(prog, ChunkCall(idx, acc, sections), cc),
        result |-> NoResult, error |-> NoError, chunkCalls |-> cc + 1]
  ELSE AttemptFailed(idx, acc, "config", prog, rc, cc)
Attempt(idx, acc, sections, prog, rc, cc) ==
  IF Callable # "none"
  THEN [pc |-> "chunk_call", i |-> idx, allShots |-> acc, retryCount |-> rc,
        outstanding |-> ChunkCall(idx, acc, sections),
        trace |-> FirstCall(prog, ChunkCall(idx, acc, sections), cc),
        result |-> NoResult, error |-> NoError, chunkCalls |-> cc + 1]
  ELSE AttemptFailed(idx, acc, "config", prog, rc, cc)

\* Lines 422-429: JSON.parse threw.  The try is outside the retry loop.
\* (variant: the parse inside the retry loop)
ParseFailedInsideLoop(idx, acc, prog, rc, cc) ==
  AttemptFailed(idx, acc, "parse_error", prog, rc, cc)
ParseFailed(idx, acc, prog, rc, cc) ==
  Thrown(idx, acc, [kind |-> "parse_error"], prog, rc, cc)

\* Lines 88-116 and 251-397: iteration idx of the loop starts.  Building the
\* prompt reads s.shotNumber of the last five shots, a TypeError on undefined.
\* (variant: without the notification of lines 92-98)
StartChunkUnannounced(idx, acc, sections, prog) ==
  LET started == prog
  IN  IF \E k \in DOMAIN LastN(acc, WINDOW) : LastN(acc, WINDOW)[k] = Undefined
      THEN Thrown(idx, acc, [kind |-> "type_error"], started, 0, 0)
      ELSE Attempt(idx, acc, sections, started, 0, 0)
StartChunk(idx, acc, sections, prog) ==
  LET started == Notify(prog, idx + 1, "start")
  IN  IF \E k \in DOMAIN LastN(acc, WINDOW) : LastN(acc, WINDOW)[k] = Undefined
      THEN Thrown(idx, acc, [kind |-> "type_error"], started, 0, 0)
      ELSE Attempt(idx, acc, sections, started, 0, 0)

\* Lines 141-147
Finished(idx, acc, prog, rc, cc) ==
  [pc |-> "done", i |-> idx, allShots |-> Renumber(acc), retryCount |-> rc,
   outstanding |-> NoCall, trace |-> prog,
   result |-> [returned |-> TRUE, shots |-> Renumber(acc)], error |-> NoError,
   chunkCalls |-> cc]

\* The loop condition of line 88
\* (variant: i <= numChunks)
ContinueOneMore(idx, acc, sections, prog, rc, cc) ==
  IF idx <= numChunks
  THEN StartChunk(idx, acc, sections, prog)
  ELSE Finished(idx, acc, prog, rc, cc)
Continue(idx, acc, sections, prog, rc, cc) ==
  IF idx < numChunks
  THEN StartChunk(idx, acc, sections, prog)
  ELSE Finished(idx, acc, prog, rc, cc)

\* ------------------------------------------------------------ the actions
\* The arguments of a call of generateStoryboardInChunks and its locals
Called(docs, plans, callers) ==
  /\ scriptText \in docs
  /\ \E plan \in plans : minShots = plan[1] /\ maxShots = plan[2]
  /\ \E caller \in callers :
       /\ modelName = caller[1]
       /\ hasCallGemini = caller[2]
       /\ hasCallDeepSeek = caller[3]
       /\ hasOnProgress = caller[4]
  /\ pc = "idle"
  /\ scriptSections = <<>>
  /\ i = 0
  /\ allShots = <<>>
  /\ retryCount = 0
  /\ outstanding = NoCall
  /\ lastProgress = NoProgress
  /\ trace = <<>>
  /\ result = NoResult
  /\ error = NoError
  /\ resultText = NoText
  /\ chunkCalls = 0
  /\ chunkResults = <<>>
  /\ splitPath = "none"
  /\ event = "none"
  /\ splitText = NoSplitText
  /\ chunkArgs = NoArgs

\* cleanContent is not called by itself
NoContentCall ==
  /\ parsedJson = NoJson
  /\ content = NoContent

Start(docs, plans) ==
  /\ Called(docs, plans, Callers)
  /\ rawResponse = NoResponse
  /\ cleaned = NotCleaned
  /\ NoContentCall

\* A whole run: the empty script and one of MaxDocLen characters
Init == Start({Doc(0), Doc(MaxDocLen)}, PlanInputs)

\* The splitter: every script up to MaxSplitDocLen characters, 1 to 5 sections
InitSplit == Start(Documents, SplitPlanInputs)

\* Runs with responses of the requested sizes: 1 to 4 chunks, two callers
LongCallers == {<<Claude3, TRUE, TRUE, TRUE>>, <<Gpt4, TRUE, TRUE, FALSE>>}
InitLong ==
  /\ Called({Doc(MaxDocLen)}, PlanInputs \cup {<<100, 140>>}, LongCallers)
  /\ rawResponse = NoResponse
  /\ cleaned = NotCleaned
  /\ NoContentCall

\* cleanJsonOutput alone is given one raw response
InitClean ==
  /\ Called({Doc(0)}, {<<20, 40>>}, {<<Claude3, TRUE, TRUE, TRUE>>})
  /\ rawResponse \in RawResponses
  /\ cleaned = NotCleaned
  /\ NoContentCall

\* The chunk plan: one short script, every (minShots, maxShots) of PlanPairs
InitPlan == Start({Doc(MaxDocLen)}, PlanPairs)

\* The dispatch: every model name with every choice of the optional
\* callables, in runs of 1 and 2 chunks
DispatchCallers == ModelNames \X BOOLEAN \X BOOLEAN \X {FALSE}
InitDispatch ==
  /\ Called({Doc(MaxDocLen)}, {<<20, 40>>, <<60, 80>>}, DispatchCallers)
  /\ rawResponse = NoResponse
  /\ cleaned = NotCleaned
  /\ NoContentCall

\* cleanContent alone is given one parsed value
InitContent ==
  /\ Called({Doc(0)}, {<<20, 40>>}, {<<Claude3, TRUE, TRUE, TRUE>>})
  /\ rawResponse = NoResponse
  /\ cleaned = NotCleaned
  /\ parsedJson \in ParsedJsons
  /\ content = NoContent

\* generateStoryboardInChunks is called: lines 74-85, and 164-212 of
\* splitScriptIntoSections up to its await or through its else branch
Generate ==
  /\ pc = "idle"
  /\ event' = "generate"
  /\ LET prog == Notify(trace, 0, "analyse")
     IN  IF Callable # "none"
         THEN /\ pc' = "split_call"
              /\ outstanding' = SplitCall
              /\ lastProgress' = LastNotification(prog)
              /\ trace' = prog
              /\ UNCHANGED <<scriptSections, i, allShots, retryCount, result,
                             error, chunkCalls, splitPath, chunkArgs>>
         ELSE /\ scriptSections' = FallbackSplit(scriptText, numChunks)
              /\ splitPath' = "fallback"
              /\ chunkArgs' = Invoked(0, <<>>, chunkArgs)
              /\ Become(Continue(0, <<>>, scriptSections', prog, 0, 0))
  /\ UNCHANGED <<inputs, chunkResults, resultText, splitText, cleaning>>

\* The split call rejects: the catch of lines 218-229
\* (variant: the catch issues the split call once more)
SplitCallRaisesRetried ==
  /\ pc = "split_call"
  /\ event' = "split_raised"
  /\ UNCHANGED <<G, inputs, scriptSections, chunkResults, resultText,
                 splitPath, splitText, chunkArgs, cleaning>>
SplitCallRaises ==
  /\ pc = "split_call"
  /\ event' = "split_raised"
  /\ scriptSections' = FallbackSplit(scriptText, numChunks)
  /\ splitPath' = "fallback"
  /\ chunkArgs' = Invoked(0, <<>>, chunkArgs)
  /\ Become(Continue(0, <<>>, scriptSections', trace, 0, 0))
  /\ UNCHANGED <<inputs, chunkResults, resultText, splitText, cleaning>>

\* The split call resolves with a text: lines 214-217 or the catch
SplitCallReturns ==
  /\ pc = "split_call"
  /\ event' = "split_returned"
  /\ \E text \in SplitTexts :
       /\ splitText' = text
       /\ scriptSections' = SplitResult(text, scriptText, numChunks)
       /\ splitPath' = SplitPath(text)
       /\ chunkArgs' = Invoked(0, <<>>, chunkArgs)
       /\ Become(Continue(0, <<>>, scriptSections', trace, 0, 0))
  /\ UNCHANGED <<inputs, chunkResults, resultText, cleaning>>

\* The chunk call rejects: lines 412-419
ChunkCallRaises ==
  /\ pc = "chunk_call"
  /\ event' = "chunk_raised"
  /\ Become(AttemptFailed(i, allShots, "transport", trace, retryCount,
                          chunkCalls))
  /\ splitText' = NoSplitText
  /\ UNCHANGED <<inputs, scriptSections, chunkResults, resultText, splitPath,
                 chunkArgs, cleaning>>

\* The 2 s delay of line 418 is over: the loop of line 398 iterates
RetryDelayElapses ==
  /\ pc = "retry_wait"
  /\ event' = "delay_elapsed"
  /\ Become(Attempt(i, allShots, scriptSections, trace, retryCount,
                    chunkCalls))
  /\ splitText' = NoSplitText
  /\ UNCHANGED <<inputs, scriptSections, chunkResults, resultText, splitPath,
                 chunkArgs, cleaning>>

\* The chunk call resolves with a text: lines 411, 422-429, then 118-127 and
\* the next iteration of the loop of line 88 or lines 141-147
ChunkReturn(texts) ==
  /\ pc = "chunk_call"
  /\ event' = "chunk_returned"
  /\ \E text \in texts :
       LET chunk == [hasShots |-> text.kind = "shots",
                     shots |-> CleanShots(text.shots)]
           acc == Concat(allShots, chunk)
       IN  /\ resultText' = text
           /\ CASE text.kind = "invalid" ->
                     /\ Become(ParseFailed(i, allShots, trace,
                                           retryCount, chunkCalls))
                     /\ UNCHANGED <<chunkResults, chunkArgs>>
                [] text.kind = "null" ->
                     \* cleanContent(null) is returned; chunkResult.shots throws
                     /\ Become(Thrown(i, allShots, [kind |-> "type_error"],
                                      trace, retryCount, chunkCalls))
                     /\ UNCHANGED <<chunkResults, chunkArgs>>
                [] OTHER ->
                     /\ chunkResults' = Append(chunkResults, chunk)
                     /\ IF hasOnProgress /\ ~chunk.hasShots
                        THEN \* line 125: chunkResult.shots.length throws
                             /\ Become(Thrown(i, acc, [kind |-> "type_error"],
                                              trace, retryCount,
                                              chunkCalls))
                             /\ UNCHANGED chunkArgs
                        ELSE /\ chunkArgs' = Invoked(i + 1, acc, chunkArgs)
                             /\ Become(Continue(i + 1, acc, scriptSections,
                                                Notify(trace, i + 1, "done"),
                                                retryCount, chunkCalls))
  /\ splitText' = NoSplitText
  /\ UNCHANGED <<inputs, scriptSections, splitPath, cleaning>>

\* with the short responses a backend may give
ChunkCallReturns == ChunkReturn(ChunkTexts)

\* with responses of the sizes the request asks for
ChunkCallReturnsLong == ChunkReturn(LongChunkTexts)

Next ==
  \/ Generate
  \/ SplitCallRaises
  \/ SplitCallReturns
  \/ ChunkCallRaises
  \/ RetryDelayElapses
  \/ ChunkCallReturns

Spec == Init /\ [][Next]_vars

\* Whole runs for every model name
DispatchSpec == InitDispatch /\ [][Next]_vars

\* Every awaited promise settles: a backend call resolves or rejects (the
\* callables time out) and the timer of the retry delay fires
FairSpec == Spec /\ WF_vars(Next)

\* splitScriptIntoSections alone: the run up to its first chunk request
NextSplit ==
  \/ Generate
  \/ SplitCallRaises
  \/ SplitCallReturns

SplitSpec == InitSplit /\ [][NextSplit]_vars

\* Whole runs whose chunk responses have the requested sizes
NextLong ==
  \/ Generate
  \/ SplitCallRaises
  \/ SplitCallReturns
  \/ ChunkCallRaises
  \/ RetryDelayElapses
  \/ ChunkCallReturnsLong

LongSpec == InitLong /\ [][NextLong]_vars

\* cleanJsonOutput is applied to the raw response: lines 9-27
CleanResponse ==
  /\ rawResponse.given
  /\ ~cleaned.returned
  /\ cleaned' = [returned |-> TRUE, text |-> cleanJsonOutput(RawText(rawResponse))]
  /\ UNCHANGED <<inputs, G, scriptSections, resultText, chunkResults,
                 splitPath, event, splitText, chunkArgs, rawResponse,
                 parsedJson, content>>

NextClean == CleanResponse

CleanSpec == InitClean /\ [][NextClean]_vars

\* cleanContent is applied to the parsed value: line 425
CleanContentReturns ==
  /\ parsedJson # NoJson
  /\ ~content.returned
  /\ content' = [returned |-> TRUE, value |-> cleanContent(parsedJson)]
  /\ UNCHANGED <<inputs, G, scriptSections, resultText, chunkResults,
                 splitPath, event, splitText, chunkArgs, rawResponse,
                 cleaned, parsedJson>>

NextContent == CleanContentReturns

ContentSpec == InitContent /\ [][NextContent]_vars

\* The chunk plan of lines 74-76 as the run up to its first chunk request
\* uses it
PlanSpec == InitPlan /\ [][NextSplit]_vars

\* ============================================================ properties
RECURSIVE Flatten(_)
Flatten(seqs) == IF seqs = <<>> THEN <<>> ELSE Head(seqs) \o Flatten(Tail(seqs))

\* The shots the completed chunk generations returned, in chunk order
ChunkShots == Flatten([c \in 1..Len(chunkResults) |-> chunkResults[c].shots])
AllChunksHaveShots == \A c \in 1..Len(chunkResults) : chunkResults[c].hasShots

\* A shot without its shotNumber
Unnumbered(shot) == [f \in (DOMAIN shot) \ {"shotNumber"} |-> shot[f]]
UnnumberedAll(shots) == [k \in 1..Len(shots) |-> Unnumbered(shots[k])]

\* Characters of the script before section k of a split
Offset(sections, k) == Len(Flatten(SubSeq(sections, 1, k - 1)))

\* The chunk generation of the step just taken failed by itself
ChunkFailed ==
  /\ pc = "failed"
  /\ error.cause.kind \in {"exhausted", "parse_error"}

\* ---- C1: when the run returns K shots, their shotNumber values are 1..K in
\* list order, whatever numbers (zero, repeated, out of order) or no number at
\* all the chunk responses carried.
C1_ShotNumbersContiguous ==
  pc = "done" =>
    /\ result.returned
    /\ \A k \in 1..Len(result.shots) : result.shots[k].shotNumber = k

\* C1's case: a returned list of at least 4 shots whose backend numbers hold
\* 7 before 0 and 0 twice
C1_Witness ==
  /\ pc = "done"
  /\ AllChunksHaveShots
  /\ Len(result.shots) >= 4
  /\ \E j, k \in 1..Len(ChunkShots) :
       j < k /\ ChunkShots[j].shotNumber = 7 /\ ChunkShots[k].shotNumber = 0
  /\ \E j, k \in 1..Len(ChunkShots) :
       j < k /\ ChunkShots[j].shotNumber = 0 /\ ChunkShots[k].shotNumber = 0

C3_SplitterReturnsNumChunks ==
  (scriptText # <<>> /\ splitPath # "none") =>
    /\ Len(scriptSections) = numChunks
    /\ outstanding.kind = "chunk" => outstanding.section.defined

\* ---- C4: the sections of the fallback split are contiguous character ranges
\* of the script in increasing order, and their concatenation is the script.
C4_FallbackReconstructs ==
  splitPath = "fallback" =>
    /\ Len(scriptSections) = numChunks
    /\ Flatten(scriptSections) = scriptText
    /\ \A k \in 1..Len(scriptSections) :
         scriptSections[k] =
           SubSeq(scriptText, Offset(scriptSections, k) + 1,
                  Offset(scriptSections, k) + Len(scriptSections[k]))

\* C4's case: the rejected split call of a 5-character script in 4 sections,
\* the last of which is empty
C4_Witness ==
  /\ splitPath = "fallback"
  /\ event = "split_raised"
  /\ Len(scriptText) = 5
  /\ numChunks = 4
  /\ scriptSections[3] = <<"e">>
  /\ scriptSections[4] = <<>>

\* ---- C5: a chunk gets at most 3 backend calls; when the third call rejects
\* the chunk fails with no 4th call; a call that returns is the chunk's last
\* call, and when it is the third and its text holds a shot list the chunk
\* succeeds with the shots of that text.
C5_Step ==
  /\ chunkCalls' <= 3
  /\ (event' = "chunk_raised" /\ retryCount = 2) =>
       /\ chunkCalls = 3
       /\ pc' = "failed"
       /\ error'.cause.kind = "exhausted"
       /\ outstanding' = NoCall
       /\ chunkCalls' = 3
  /\ (event' = "chunk_raised" /\ retryCount < 2) =>
       /\ pc' = "retry_wait"
       /\ error' = NoError
  /\ (event' = "chunk_returned") =>
       /\ chunkCalls = retryCount + 1
       /\ ~(i' = i /\ outstanding'.kind = "chunk")
  /\ (event' = "chunk_returned" /\ retryCount = 2 /\ resultText'.kind = "shots") =>
       /\ error' = NoError
       /\ chunkResults' =
            Append(chunkResults,
                   [hasShots |-> TRUE, shots |-> CleanShots(resultText'.shots)])
       /\ i' = i + 1

C5_AtMostThreeAttempts == [][C5_Step]_vars

\* C5's case: the last chunk returned on its third call after two rejections
C5_Witness ==
  /\ pc = "done"
  /\ event = "chunk_returned"
  /\ retryCount = 2
  /\ chunkCalls = 3
  /\ Len(result.shots) > 0

\* ---- C6: once a chunk generation has failed (retries exhausted or parse
\* error) the run has ended with an error: no call is outstanding, none is
\* issued afterwards, and no chunk beyond the failing one was started.
C6_Step ==
  /\ ((event' = "chunk_raised" /\ retryCount = 2)
      \/ (event' = "chunk_returned" /\ resultText'.kind = "invalid")) =>
       /\ pc' = "failed"
       /\ error' # NoError
       /\ outstanding' = NoCall
       /\ i' = i
       /\ ~result'.returned
  /\ pc = "failed" => UNCHANGED vars

C6_NoCallAfterFailure ==
  /\ [](ChunkFailed =>
          /\ outstanding = NoCall
          /\ ~result.returned
          /\ error.chunk = i + 1
          /\ Len(chunkResults) = i)
  /\ [][C6_Step]_vars

\* C6's case: chunk 2 of 3 failed after chunk 1 succeeded
C6_Witness ==
  /\ ChunkFailed
  /\ numChunks = 3
  /\ i = 1
  /\ Len(chunkResults) = 1

C8_FirstChunkErrorIsAdvice ==
  (pc = "failed" /\ i = 0 /\ scriptText # <<>>) =>
    /\ error.kind = "advice"
    /\ error.chunk = 1
    /\ error.total = numChunks
    /\ "completed" \notin DOMAIN error

\* ---- C9: when no callable is registered for the resolved category, the
\* chunk generation fails on its first attempt: no retry iteration, no delay
\* between attempts, and no backend call at any point of the run.
C9_NoRetryWithoutCallable ==
  (Callable = "none" /\ scriptText # <<>>) =>
    /\ outstanding = NoCall
    /\ pc # "retry_wait"
    /\ retryCount <= 1
    /\ event # "delay_elapsed"

\* ---- C10: a chunk text that is not valid JSON is never retried: the chunk
\* fails at once with a parse error and no further call is made for it.
C10_ParseErrorNotRetried ==
  resultText.kind = "invalid" =>
    /\ pc = "failed"
    /\ error.cause.kind = "parse_error"
    /\ outstanding = NoCall
    /\ event = "chunk_returned"

\* C10's case: the first call of a later chunk returned invalid text, with
\* both retries unused
C10_Witness ==
  /\ resultText.kind = "invalid"
  /\ pc = "failed"
  /\ i >= 1
  /\ retryCount = 0
  /\ chunkCalls = 1

\* ---- C11: a chunk text that is valid JSON but holds no 'shots' array makes
\* the chunk fail at once with a parse error: it is not recorded as a chunk
\* result and adds no element to the accumulated list.
C11_ShapeMismatchIsParseError ==
  (event = "chunk_returned" /\ resultText.kind = "no_shots"
   /\ scriptText # <<>>) =>
    /\ pc = "failed"
    /\ error.cause.kind = "parse_error"
    /\ Len(chunkResults) = i
    /\ \A k \in 1..Len(allShots) : allShots[k] # Undefined

\* ---- C12: splitScriptIntoSections never throws and awaits at most one
\* backend call in a run: the call is issued only by the run's first step, and
\* the step that ends it (rejected, timed out, or resolved with a text that
\* does not parse to an object) issues no further split call, ends with no
\* error and leaves the equal split of the script as the sections.
C12_Step ==
  /\ outstanding'.kind = "split" => (pc = "idle" /\ event' = "generate")
  /\ pc' # "idle"
  /\ pc = "split_call" =>
       /\ event' \in {"split_raised", "split_returned"}
       /\ pc' \in {"chunk_call", "retry_wait"}
       /\ outstanding'.kind # "split"
       /\ error' = NoError
       /\ i' = 0
  /\ (\/ event' = "split_raised"
      \/ event' = "split_returned" /\ splitText'.kind \in {"invalid", "null"}) =>
       /\ splitPath' = "fallback"
       /\ scriptSections' = FallbackSplit(scriptText, numChunks)
       /\ Len(scriptSections') = numChunks
       /\ Flatten(scriptSections') = scriptText

C12_SplitterSingleCallNoThrow == [][C12_Step]_vars

\* C12's case: the split call resolved with a text that is not JSON and the
\* first chunk is requested with the first half of the script
C12_Witness ==
  /\ event = "split_returned"
  /\ splitText.kind = "invalid"
  /\ splitPath = "fallback"
  /\ numChunks = 2
  /\ scriptSections = <<<<"a">>, <<"b">>>>
  /\ outstanding.kind = "chunk"
  /\ outstanding.section.text = <<"a">>

AllChunksWithinBounds ==
  \A c \in 1..Len(chunkResults) :
    /\ chunkResults[c].hasShots
    /\ chunkMin <= Len(chunkResults[c].shots)
    /\ Len(chunkResults[c].shots) <= chunkMax

Terminated == pc \in {"done", "failed"}

\* Backend calls the run may still issue: the split call, 3 for every chunk
\* not yet started, and what is left of the 3 of the running chunk
CallsLeft ==
  CASE pc = "idle" -> 1 + 3 * numChunks
    [] pc = "split_call" -> 3 * numChunks
    [] pc \in {"chunk_call", "retry_wait"} ->
         (3 - chunkCalls) + 3 * (numChunks - i - 1)
    [] OTHER -> 0

\* ---- C15: when every awaited call and delay settles, the run ends, in
\* exactly one of three ways: a result after numChunks chunks completed, an
\* error at a chunk after the first, or an error at the first chunk; a run
\* that has not ended can take a step; and every call issued is one of the
\* 1 + 3 * numChunks the run has at its start.
C15_Outcome ==
  /\ Terminated \/ ENABLED Next
  /\ CallsLeft >= 0
  /\ pc = "done" =>
       /\ result.returned /\ error = NoError
       /\ i = numChunks /\ Len(chunkResults) = numChunks
       /\ outstanding = NoCall
  /\ pc = "failed" =>
       /\ ~result.returned /\ error # NoError
       /\ i \in 0..(numChunks - 1) /\ error.chunk = i + 1
       /\ outstanding = NoCall
  /\ ~Terminated => (~result.returned /\ error = NoError)

C15_Step ==
  /\ Terminated => UNCHANGED vars
  /\ CallsLeft' <= CallsLeft - (IF outstanding'.kind # "none" THEN 1 ELSE 0)

C15_TerminatesWithinBudget ==
  /\ []C15_Outcome
  /\ [][C15_Step]_vars
  /\ <>Terminated

\* C15's case: a run of 3 chunks that ended at its third chunk after the
\* third call for it
C15_Witness ==
  /\ Terminated
  /\ numChunks = 3
  /\ i = 2
  /\ chunkCalls = 3
  /\ CallsLeft = 0
  /\ event = "chunk_raised"

\* The raw response is fenced, holds a reasoning block and has prose on both
\* sides
FencedThinkProse ==
  /\ rawResponse.open # <<>>
  /\ rawResponse.think # <<>>
  /\ rawResponse.before # <<>>
  /\ rawResponse.after # <<>>

HasBrace(s) == \E k \in 1..Len(s) : s[k] \in {"{", "}"}

\* ---- C16 as stated: cleaning a fenced response with a reasoning block and
\* prose before and after it yields exactly the text of the JSON object in it.
C16_CleanYieldsJson ==
  (cleaned.returned /\ FencedThinkProse) => cleaned.text = rawResponse.json

HasThinkTag(s) == Places(s, ThinkOpen) # {} \/ Places(s, ThinkClose) # {}

\* ---- C16 amended: cleaning a fenced response with a reasoning block and
\* prose before and after it, the prose holding no brace and the JSON object
\* text no reasoning tag, yields exactly the text of the JSON object in it,
\* braces inside the reasoning block or not.
C16_CleanYieldsJsonBraceFreeProse ==
  (/\ cleaned.returned
   /\ FencedThinkProse
   /\ ~HasBrace(rawResponse.before)
   /\ ~HasBrace(rawResponse.after)
   /\ ~HasThinkTag(rawResponse.json)) => cleaned.text = rawResponse.json

\* C16's case: prose, a reasoning block with braces, a json fence around a
\* nested object, prose
C16_Witness ==
  /\ cleaned.returned
  /\ FencedThinkProse
  /\ rawResponse.before = <<"H", "i", " ">>
  /\ HasBrace(rawResponse.think)
  /\ rawResponse.open = FenceJson \o NewLine
  /\ Len(rawResponse.json) = 13
  /\ rawResponse.after = <<"\n", "o", "k">>
  /\ cleaned.text = rawResponse.json

\* ---- C17: the run awaits one backend call at a time, and a call for a chunk
\* is outstanding only when every earlier chunk has completed with a shot
\* list that is in the accumulated list; the first call for chunk i + 1 is
\* issued by the step in which the call for chunk i returned.
C17_State ==
  /\ pc \notin {"split_call", "chunk_call"} => outstanding = NoCall
  /\ pc = "split_call" =>
       (outstanding.kind = "split" /\ chunkResults = <<>> /\ allShots = <<>>)
  /\ pc = "chunk_call" =>
       /\ outstanding.kind = "chunk"
       /\ outstanding.chunk = i
       /\ i < numChunks
       /\ Len(chunkResults) = i
       /\ AllChunksHaveShots
       /\ allShots = ChunkShots

C17_Step ==
  /\ (outstanding.kind = "chunk" /\ outstanding'.kind = "chunk") =>
       /\ event' = "chunk_returned"
       /\ resultText'.kind = "shots"
       /\ outstanding'.chunk = outstanding.chunk + 1
       /\ chunkResults' =
            Append(chunkResults,
                   [hasShots |-> TRUE, shots |-> CleanShots(resultText'.shots)])
       /\ allShots' = allShots \o CleanShots(resultText'.shots)
  /\ outstanding'.kind = "chunk" =>
       outstanding'.chunk \in {i, i + 1}

ShotsBefore(c) == Flatten([k \in 1..c |-> chunkResults[k].shots])

\* ---- C18: the start number generateStoryboardChunk is called with for
\* chunk i is 1 plus the count of the shots the chunks 0..i-1 returned, 1 for
\* chunk 0, whatever shotNumber values those shots carry.
C18_StartNumberCountsReturnedShots ==
  (chunkArgs.called /\ scriptText # <<>>) =>
    /\ chunkArgs.chunk = 0 => chunkArgs.startShotNumber = 1
    /\ chunkArgs.startShotNumber = 1 + Len(ShotsBefore(chunkArgs.chunk))

C20_Step ==
  scriptText # <<>> =>
    /\ event' \in {"chunk_raised", "delay_elapsed"} => allShots' = allShots
    /\ (event' = "chunk_returned" /\ resultText'.kind = "invalid") =>
         allShots' = allShots
    /\ pc' = "failed" => allShots' = allShots
    /\ allShots' # allShots =>
         /\ event' = "chunk_returned"
         /\ resultText'.kind = "shots"
         /\ Len(allShots') = Len(allShots) + Len(resultText'.shots)

C20_ContinuityChangesOnSuccessOnly == [][C20_Step]_vars

\* ---- C21: when the split call returns a text that parses as JSON and holds
\* no array under "sections" (the text null, or an object in which the key is
\* missing or null), the splitter takes the fallback and returns the
\* numChunks slices of the equal split of the script.
C21_NoSectionsArrayFallsBack ==
  (event = "split_returned" /\ splitText.kind \in {"null", "no_sections"}) =>
    /\ splitPath = "fallback"
    /\ Len(scriptSections) = numChunks
    /\ scriptSections = FallbackSplit(scriptText, numChunks)

\* The characters no cleaned string may hold
Markup == {"*", "[", "]", "U+3010", "U+3011"}

\* No string in the value holds one of them
RECURSIVE NoMarkup(_)
NoMarkup(v) ==
  IF v.t = "string" THEN \A k \in 1..Len(v.s) : v.s[k] \notin Markup
  ELSE IF v.t = "array" THEN \A k \in 1..Len(v.items) : NoMarkup(v.items[k])
  ELSE IF v.t = "object" THEN \A k \in 1..Len(v.vals) : NoMarkup(v.vals[k])
  ELSE TRUE

\* The same keys, array lengths, element order and leaves that are no strings
RECURSIVE SameShape(_, _)
SameShape(v, w) ==
  IF v.t # w.t THEN FALSE
  ELSE IF v.t = "string" THEN TRUE
  ELSE IF v.t = "array"
  THEN /\ Len(v.items) = Len(w.items)
       /\ \A k \in 1..Len(v.items) : SameShape(v.items[k], w.items[k])
  ELSE IF v.t = "object"
  THEN /\ v.keys = w.keys
       /\ \A k \in 1..Len(v.keys) : SameShape(v.vals[k], w.vals[k])
  ELSE v = w

\* ---- C22: in the value cleanContent returns for a parsed response no string
\* holds an asterisk, a square bracket or a full-width bracket, and the keys
\* of every object, the length and order of every array and every leaf that
\* is no string are those of the parsed response.
C22_CleanedKeepsShape ==
  content.returned =>
    /\ NoMarkup(content.value)
    /\ SameShape(parsedJson, content.value)

RECURSIVE HasProtoKey(_)
HasProtoKey(v) ==
  IF v.t = "array" THEN \E k \in 1..Len(v.items) : HasProtoKey(v.items[k])
  ELSE IF v.t = "object"
  THEN \E k \in 1..Len(v.keys) : v.keys[k] = ProtoKey \/ HasProtoKey(v.vals[k])
  ELSE FALSE

\* What holds of it: the same for every parsed response without the key
\* __proto__
CleanedKeepsShapeWithoutProtoKey ==
  (content.returned /\ ~HasProtoKey(parsedJson)) =>
    /\ NoMarkup(content.value)
    /\ SameShape(parsedJson, content.value)

\* Places of the trace with a notification whose current is n
NotifiedAt(n) ==
  {p \in 1..Len(trace) : trace[p].kind = "notify" /\ trace[p].current = n}

\* Places of the trace with a notification or the first call of chunk c
ActivityOf(c) ==
  NotifiedAt(c + 1)
  \cup {p \in 1..Len(trace) : trace[p].kind = "call" /\ trace[p].chunk = c}

\* Chunk c has been started
Started(c) ==
  c < i \/ (c = i /\ pc \in {"chunk_call", "retry_wait", "failed"})

\* ---- C23: with a progress callback, every started chunk i was announced
\* with current = i + 1 and total = numChunks before its first backend call;
\* a chunk that succeeded has a second notification with the same values,
\* given before any notification or call of chunk i + 1; the current values
\* never decrease and lie in 0..total; and a run that failed at a chunk gave
\* no notification after that chunk's announcement and takes no further step.
C23_ProgressOrder ==
  hasOnProgress =>
    /\ \A c \in 0..(numChunks - 1) :
         /\ Started(c) =>
              \E q \in NotifiedAt(c + 1) :
                /\ trace[q].total = numChunks
                /\ \A p \in ActivityOf(c) : q <= p
         /\ c < i =>
              /\ Cardinality(NotifiedAt(c + 1)) = 2
              /\ \A q \in NotifiedAt(c + 1) :
                   /\ trace[q].total = numChunks
                   /\ \A p \in ActivityOf(c + 1) : q < p
         /\ ~Started(c) => ActivityOf(c) = {}
    /\ \A p, q \in 1..Len(trace) :
         (p < q /\ trace[p].kind = "notify" /\ trace[q].kind = "notify") =>
           trace[p].current <= trace[q].current
    /\ \A p \in 1..Len(trace) :
         trace[p].kind = "notify" =>
           (0 <= trace[p].current /\ trace[p].current <= trace[p].total)
    /\ pc = "failed" =>
         /\ Cardinality(NotifiedAt(i + 1)) = 1
         /\ trace[Len(trace)].kind = "notify" => trace[Len(trace)].current = i + 1
         /\ ~ENABLED Next

\* C23's case: a run of 3 chunks with a callback that ended with a result:
\* 7 notifications and the 3 first calls between them
C23_Witness ==
  /\ hasOnProgress
  /\ pc = "done"
  /\ numChunks = 3
  /\ [p \in 1..Len(trace) |->
        IF trace[p].kind = "notify" THEN trace[p].current ELSE -1]
       = <<0, 1, -1, 1, 2, -1, 2, 3, -1, 3>>

\* The category of the model name: the first prefix that matches, in the
\* order claude, gpt-, deepseek, otherwise the default
Category ==
  IF StartsWith(modelName, <<"c","l","a","u","d","e">>) THEN "claude"
  ELSE IF StartsWith(modelName, <<"g","p","t","-">>) THEN "openai"
  ELSE IF StartsWith(modelName, <<"d","e","e","p","s","e","e","k">>)
  THEN "deepseek"
  ELSE "gemini"

\* The callable of a category, and whether the caller passed it
CallableOf(category) ==
  CASE category = "claude" -> "callClaude"
    [] category = "openai" -> "callOpenAI"
    [] category = "deepseek" -> "callDeepSeek"
    [] category = "gemini" -> "callGemini"
Registered(category) ==
  CASE category = "deepseek" -> hasCallDeepSeek
    [] category = "gemini" -> hasCallGemini
    [] OTHER -> TRUE

\* ---- C24: the model name has exactly one category, the first of claude,
\* gpt-, deepseek whose prefix it starts with, and the default otherwise; the
\* split call and every chunk call of the run go to the callable of that
\* category with that model name, and when that callable was not passed no
\* call is issued at all, whichever other callables were passed.
C24_DispatchByCategory ==
  /\ Cardinality({c \in {"claude", "openai", "deepseek", "gemini"} :
                   \/ c = "claude" /\ isClaude
                   \/ c = "openai" /\ isOpenAI
                   \/ c = "deepseek" /\ isDeepSeek
                   \/ c = "gemini" /\ isGemini}) = 1
  /\ isClaude <=> Category = "claude"
  /\ isOpenAI <=> Category = "openai"
  /\ isDeepSeek <=> Category = "deepseek"
  /\ isGemini <=> Category = "gemini"
  /\ outstanding # NoCall =>
       /\ outstanding.kind \in {"split", "chunk"}
       /\ outstanding.fn = CallableOf(Category)
       /\ Registered(Category)
       /\ outstanding.model = modelName
  /\ ~Registered(Category) =>
       /\ outstanding = NoCall
       /\ \A p \in 1..Len(trace) : trace[p].kind # "call"
       /\ pc \notin {"split_call", "chunk_call"}

\* C24's case: a DeepSeek model whose callable was not passed while
\* callGemini was: the run has failed at its first chunk and no call was made
C24_Witness ==
  /\ modelName = DeepSeekV3
  /\ hasCallGemini
  /\ ~hasCallDeepSeek
  /\ pc = "failed"
  /\ error.cause.kind = "exhausted"
  /\ splitPath = "fallback"
  /\ trace = <<>>

\* ---- C25: every backend call has a timeout as its fourth argument: 300000
\* ms in the split call and 600000 ms in every chunk call, for every
\* category, the first shorter than the second.
C25_EveryCallHasTimeout ==
  /\ outstanding.kind = "split" =>
       (Len(outstanding.timeout) = 1 /\ outstanding.timeout[1] = 300000)
  /\ outstanding.kind = "chunk" =>
       (Len(outstanding.timeout) = 1 /\ outstanding.timeout[1] = 600000)
  /\ SPLIT_TIMEOUT < CHUNK_TIMEOUT

\* ---- C26: the run returns a shot list only when each of the numChunks
\* chunks completed with a shot list; a run in which a chunk failed ends with
\* an error and returns no list, whatever the earlier chunks produced.
C26_ResultOnlyWhenAllChunksSucceeded ==
  /\ result.returned =>
       /\ pc = "done"
       /\ error = NoError
       /\ Len(chunkResults) = numChunks
       /\ AllChunksHaveShots
  /\ pc = "failed" => (~result.returned /\ error # NoError)

\* ---- C27: for a script of at least numChunks characters every section of
\* the fallback split is non-empty, and no chunk request carries an empty
\* section text.
C27_FallbackSectionsNonEmpty ==
  (splitPath = "fallback" /\ Len(scriptText) >= numChunks) =>
    /\ \A k \in 1..Len(scriptSections) : scriptSections[k] # <<>>
    /\ outstanding.kind = "chunk" =>
         (outstanding.section.defined /\ outstanding.section.text # <<>>)

\* ---- C28: the bounds the chunk requests ask for can add up to the target:
\* numChunks times the least count is at most targetCount =
\* floor((minShots + maxShots) / 2), and numChunks times the most count is at
\* least targetCount, the two counts being floor(0.8 * chunkSize) and
\* floor(1.2 * chunkSize).
C28_PlanCoversTarget ==
  LET targetCount == (minShots + maxShots) \div 2
  IN  /\ numChunks * ((8 * CHUNK_SIZE) \div 10) <= targetCount
      /\ targetCount <= numChunks * ((12 * CHUNK_SIZE) \div 10)
      /\ outstanding.kind = "chunk" =>
           /\ numChunks * outstanding.minShots <= targetCount
           /\ targetCount <= numChunks * outstanding.maxShots

\* ---- C29: the numbers the request shows with the shots of its window are
\* consecutive and end at startShotNumber - 1, whatever numbers the earlier
\* responses carried.
C29_WindowNumbersEndBeforeStart ==
  outstanding.kind = "chunk" =>
    LET window == outstanding.window
    IN  \A k \in 1..Len(window) :
          window[k].shotNumber
            = outstanding.startShotNumber - Len(window) + k - 1

\* What holds of it: the same when every earlier response numbered its shots
\* from the start number it was asked for
WindowNumbersOfNumberedResponses ==
  (outstanding.kind = "chunk"
   /\ \A c \in 1..Len(chunkResults) :
        \A k \in 1..Len(chunkResults[c].shots) :
          chunkResults[c].shots[k].shotNumber
            = Len(ShotsBefore(c - 1)) + k) =>
    LET window == outstanding.window
    IN  \A k \in 1..Len(window) :
          window[k].shotNumber
            = outstanding.startShotNumber - Len(window) + k - 1

\* The request of the first call for chunk c
FirstRequestOf(c) ==
  LET p == CHOOSE p \in 1..Len(trace) :
             trace[p].kind = "call" /\ trace[p].chunk = c
  IN  trace[p].request

\* ---- C30: every call for a chunk carries the request of the chunk's first
\* call: callable, model name, section text, count bounds, start number,
\* window and timeout; and a rejected call that is retried, and the delay
\* before the retry, leave the inputs, the sections, the accumulated shots,
\* the chunk results, the notifications and the outcome of the run unchanged.
C30_State ==
  outstanding.kind = "chunk" =>
    /\ \E p \in 1..Len(trace) : trace[p].kind = "call" /\ trace[p].chunk = i
    /\ outstanding = FirstRequestOf(i)

C30_Step ==
  (event' \in {"chunk_raised", "delay_elapsed"} /\ pc' # "failed") =>
    /\ pc' \in {"retry_wait", "chunk_call"}
    /\ UNCHANGED <<inputs, scriptSections, i, allShots, chunkResults,
                   lastProgress, trace, result, error, chunkArgs>>

C30_RetriesRepeatRequest == []C30_State /\ [][C30_Step]_vars

\* C30's case: the third call for the third chunk, with a window of five
\* shots and the start number 7, after two calls for it were rejected
C30_Witness ==
  /\ pc = "chunk_call"
  /\ i = 2
  /\ retryCount = 2
  /\ chunkCalls = 3
  /\ outstanding.startShotNumber = 7
  /\ Len(outstanding.window) = 5
  /\ outstanding = FirstRequestOf(2)

====
